---- MODULE Spec2Model ----
(***************************************************************************)
(* Model of the SynthData dashboard: the Dashboard shell, the ProjectList, *)
(* DatasetUpload and SyntheticGenerator views and the rows they write to   *)
(* the hosted store.                                                       *)
(*                                                                         *)
(* Row ids are positions in their table (tables only grow).  Every         *)
(* awaited request of a handler is a step of its own: the handler action   *)
(* issues the request, the *Response action commits it at the store and    *)
(* runs the handler's continuation up to its next await.  The data client  *)
(* resolves every request with {data, error}; the handlers read it that    *)
(* way (part_000:456-470, part_001:67-82).                                 *)
(***************************************************************************)
EXTENDS Integers, Sequences, FiniteSets, TLC

\* ------------------------------------------------------------------ bounds
MaxRows == 6          \* rows of projects, datasets and synthetic_generations together
MaxTokens == 3        \* tokens concatenated into a file text (ParseSpec)
RandSteps == 2        \* Math.random() returns n / RandSteps, 0 <= n < RandSteps
MaxClock == 2         \* the clock reads of a submission are 0..MaxClock ms

\* --------------------------------------------------------------- constants
NoId == 0
NoUser == "nobody"
user == "u1"               \* useAuth().user.id of the session
OtherUser == "u2"          \* owner of the rows already in the store
NoFile == [name |-> "", type |-> "", text |-> <<>>]
NoDataset == [id |-> NoId, row_count |-> 0]

TemplateRowCount == 1000
DefaultRowCount == 10000
DefaultEpsilon == 10       \* 1.0: epsilon is counted in tenths
DefaultK == 5
MinPrefillRows == 1000

\* min, max and step of the three number inputs (epsilon in tenths)
MinRowCount == 100
MaxRowCount == 1000000
RowCountStep == 1000
MinEpsilon == 1
MaxEpsilon == 100
EpsilonStep == 1
MinK == 2
MaxK == 20
KStep == 1

CsvError == "Please upload a CSV file"
UploadFailed == "Upload failed"
TemplateFailed == "Template creation failed"
GenerationFailed == "Generation failed"
DbError == "db error"      \* the message field of an error the store returns
TypeErrorMsg == "Cannot read properties of undefined (reading 'split')"

Views == {"projects", "upload", "generate", "metrics", "settings"}
InsertOutcomes == {"ok", "error"}

\* ------------------------------------------------ text of an uploaded file
\* A text is a sequence of one-character strings.
WhiteSpace == {" ", "\t", "\r", "\n"}

Lower(c) == CASE c = "I" -> "i"
              [] c = "D" -> "d"
              [] c = "N" -> "n"
              [] OTHER -> c

ToLowerCase(s) == [i \in 1..Len(s) |-> Lower(s[i])]

IndexOf(s, c) == IF \E i \in 1..Len(s) : s[i] = c
                 THEN CHOOSE i \in 1..Len(s) : s[i] = c /\ \A j \in 1..(i-1) : s[j] # c
                 ELSE 0

RECURSIVE Split(_, _)
Split(s, sep) ==
  LET i == IndexOf(s, sep)
  IN IF i = 0 THEN <<s>>
     ELSE <<SubSeq(s, 1, i-1)>> \o Split(SubSeq(s, i+1, Len(s)), sep)

RECURSIVE TrimStart(_)
TrimStart(s) == IF s # <<>> /\ Head(s) \in WhiteSpace THEN TrimStart(Tail(s)) ELSE s

RECURSIVE TrimEnd(_)
TrimEnd(s) == IF s # <<>> /\ s[Len(s)] \in WhiteSpace
              THEN TrimEnd(SubSeq(s, 1, Len(s)-1)) ELSE s

Trim(s) == TrimEnd(TrimStart(s))

Includes(s, sub) == \E i \in 0..(Len(s) - Len(sub)) : SubSeq(s, i+1, i+Len(sub)) = sub

Truthy(row) == Trim(row) # <<>>

Rows(text) == SelectSeq(Split(text, "\n"), Truthy)

Headers(text) == Split(Rows(text)[1], ",")

\* the substring match without lower-casing the header
SensitiveCaseSensitive(header) ==
  \/ Includes(header, <<"i","d">>)
  \/ Includes(header, <<"n","a","m","e">>)
  \/ Includes(header, <<"p","h","o","n","e">>)

Sensitive(header) ==
  \/ Includes(ToLowerCase(header), <<"i","d">>)
  \/ Includes(ToLowerCase(header), <<"n","a","m","e">>)
  \/ Includes(ToLowerCase(header), <<"p","h","o","n","e">>)

SchemaEntry(header) ==
  [name |-> Trim(header), type |-> "string", sensitive |-> Sensitive(header)]

Schema(text) == [i \in 1..Len(Headers(text)) |-> SchemaEntry(Headers(text)[i])]

\* the header counted twice
RowCountLessHeaderTwice(text) == Len(Rows(text)) - 2

\* counting every line, blank ones included
RowCountAllLines(text) == Len(Split(text, "\n")) - 1

RowCount(text) == Len(Rows(text)) - 1

\* rows[0] is undefined when no line is left: rows[0].split throws.
ParseThrows(text) == Rows(text) = <<>>


\* -------------------------------------------------- numbers and their text
\* Number.NaN, what parseInt and parseFloat give for a text without a number
NaN == -1

Digits == <<"0","1","2","3","4","5","6","7","8","9">>

IsDigit(c) == \E d \in DOMAIN Digits : Digits[d] = c

DigitValue(c) == (CHOOSE d \in DOMAIN Digits : Digits[d] = c) - 1

RECURSIVE LeadingDigits(_)
LeadingDigits(s) ==
  IF s # <<>> /\ IsDigit(Head(s)) THEN <<Head(s)>> \o LeadingDigits(Tail(s))
  ELSE <<>>

RECURSIVE DigitsValue(_)
DigitsValue(s) ==
  IF s = <<>> THEN 0
  ELSE 10 * DigitsValue(SubSeq(s, 1, Len(s) - 1)) + DigitValue(s[Len(s)])

\* parseInt(text): the leading digits, NaN without any
ParseInt(s) ==
  LET ds == LeadingDigits(s) IN IF ds = <<>> THEN NaN ELSE DigitsValue(ds)

\* parseFloat(text) in tenths, for texts with at most one decimal
ParseFloat(s) ==
  LET ip == LeadingDigits(s)
      rest == SubSeq(s, Len(ip) + 1, Len(s))
      fr == IF rest # <<>> /\ Head(rest) = "." THEN LeadingDigits(Tail(rest))
            ELSE <<>>
  IN IF ip = <<>> /\ fr = <<>> THEN NaN
     ELSE 10 * DigitsValue(ip) + (IF fr = <<>> THEN 0 ELSE DigitValue(fr[1]))

RECURSIVE IntToString(_)
IntToString(n) ==
  IF n < 10 THEN <<Digits[n + 1]>>
  ELSE IntToString(n \div 10) \o <<Digits[(n % 10) + 1]>>

NaNText == <<"N","a","N">>

\* `${n}` of an integer n
NumberToString(n) == IF n = NaN THEN NaNText ELSE IntToString(n)

\* the number printed with its decimal even when it is a whole number
TenthsToStringFixed(e) ==
  IF e = NaN THEN NaNText
  ELSE IntToString(e \div 10) \o <<".", Digits[(e % 10) + 1]>>

\* `${e}` of a number counted in tenths: 1.0 prints as 1, 0.5 as 0.5
TenthsToString(e) ==
  IF e = NaN THEN NaNText
  ELSE IntToString(e \div 10)
         \o (IF e % 10 = 0 THEN <<>> ELSE <<".", Digits[(e % 10) + 1]>>)

PrivacyGuaranteesPrefix ==
  <<"ε","-","d","i","f","f","e","r","e","n","t","i","a","l"," ","p","r",
      "i","v","a","c","y"," ","w","i","t","h"," ","ε","=">>

AnonymizationPrefix ==
  <<"k","-","a","n","o","n","y","m","i","t","y"," ","w","i","t","h"," ",
    "k","=">>

\* ------------------------------------------------------------------- state
VARIABLES
  \* the hosted store: one sequence of rows per table
  projects, datasets, generations,
  privacy_metrics, utility_metrics, compliance_reports,
  \* Dashboard
  currentView, selectedProject, selectedDataset, stats, statsReqs,
  \* ProjectList
  plProjects, showCreateForm, formData, plLoading, plLoadPending, createReqs,
  \* DatasetUpload
  file, uploading, upError, upSuccess, templates, tplLoadPending,
  uploadReqs, uploadTimers,
  \* SyntheticGenerator
  genDataset, genLoading, generating, genSuccess, genError, params,
  loadDatasetReqs, genReqs, genTimers,
  \* PrivacyMetrics
  pmGenerations, selectedGen, pmLoading, pmLoadPending

storeVars == <<projects, datasets, generations,
               privacy_metrics, utility_metrics, compliance_reports>>
plVars == <<plProjects, showCreateForm, formData, plLoading, plLoadPending>>
upVars == <<file, uploading, upError, upSuccess, templates, tplLoadPending>>
genVars == <<genDataset, genLoading, generating, genSuccess, genError, params,
             loadDatasetReqs>>
pmVars == <<pmGenerations, selectedGen, pmLoading, pmLoadPending>>
vars == <<storeVars, currentView, selectedProject, selectedDataset,
          stats, statsReqs, plVars, createReqs, upVars, uploadReqs,
          uploadTimers, genVars, genReqs, genTimers, pmVars>>

\* ------------------------------------------------------------ store helpers
\* an insert that replaces the table's rows instead of appending
InsertRowReplacing(table, row) == <<row>>

InsertRow(table, row) == Append(table, row)

\* rows stored or about to be: the inserts still awaited count as rows
RowsInUse ==
  Len(projects) + Len(datasets) + Len(generations) + Len(createReqs)
    + Len(uploadReqs) + Len(SelectSeq(genReqs, LAMBDA r : r.stage = "gen"))

Remove(seq, i) == SubSeq(seq, 1, i-1) \o SubSeq(seq, i+1, Len(seq))

Kill(reqs) == [i \in DOMAIN reqs |-> [reqs[i] EXCEPT !.alive = FALSE]]

\* err.message without the fallback
ErrMessageRaw(msg, fallback) == msg

\* err.message || fallback
ErrMessage(msg, fallback) == IF msg = "" THEN fallback ELSE msg

Max(a, b) == IF a >= b THEN a ELSE b

RECURSIVE Reverse(_)
Reverse(s) == IF s = <<>> THEN <<>> ELSE Append(Reverse(Tail(s)), Head(s))

UserIds(table) ==
  SelectSeq([i \in DOMAIN table |-> i], LAMBDA i : table[i].user_id = user)

\* the list in the order of insertion
UserProjectsOldestFirst == UserIds(projects)

\* select('*').eq('user_id', user.id).order('created_at', {ascending: false})
UserProjectsNewestFirst == Reverse(UserIds(projects))

\* the select without its user_id filter
AllGenerationsNewestFirst == Reverse([i \in DOMAIN generations |-> i])

\* select(..., privacy_metrics(*), ...).eq('user_id', user.id)
\*   .order('created_at', {ascending: false})
UserGenerationsNewestFirst == Reverse(UserIds(generations))

UserProjectCount == Len(UserIds(projects))
UserGenerationCount == Len(UserIds(generations))

\* the count of the datasets under the user's projects only
DatasetCountOfUser ==
  Cardinality({d \in DOMAIN datasets :
                 projects[datasets[d].project_id].user_id = user})

\* select('id', {count: 'exact'}) on datasets, without a filter
DatasetCount == Len(datasets)

StatsTables == {"projects", "datasets", "synthetic_generations"}

\* the count field of a select that failed
NoCount == -1

\* what each of the three selects of loadStats counts
CountOf(tbl) ==
  CASE tbl = "projects" -> UserProjectCount
    [] tbl = "datasets" -> DatasetCount
    [] tbl = "synthetic_generations" -> UserGenerationCount

\* count || 0
OrZero(count) == IF count = NoCount THEN 0 ELSE count

ZeroStats == [totalProjects |-> 0, totalDatasets |-> 0, totalGenerations |-> 0,
              recentActivity |-> 0]

\* a loadStats call that has issued its three selects; statsReqs holds the
\* calls in the order they were made, and a call with nothing pending has
\* resolved
NewStatsReq == [pending |-> StatsTables, counts |-> [t \in StatsTables |-> NoCount]]
UserDatasetIds == {d \in DOMAIN datasets : datasets[d].project_id \in DOMAIN projects
                                            /\ projects[datasets[d].project_id].user_id = user}

\* the templates table (is_public = true), ordered by name
Templates == <<
  [name |-> "Mpesa",
   schema_json |-> <<[name |-> <<"p","h","o","n","e">>, type |-> "string", sensitive |-> TRUE],
                     [name |-> <<"a","m","t">>, type |-> "number", sensitive |-> FALSE]>>] >>

\* the files the user can pick in the file dialog
Files == {
  [name |-> "loans.csv", type |-> "text/csv",
   text |-> <<"a",",","b",",","i","d","\n","1",",","2",",","3","\n","\n">>],
  [name |-> "blank.csv", type |-> "text/csv", text |-> <<" ","\n">>],
  [name |-> "notes.txt", type |-> "text/plain", text |-> <<"i","d","\n","7">>] }

DefaultParams == [model_type |-> "ctgan", row_count |-> DefaultRowCount,
                  epsilon |-> DefaultEpsilon, k_anonymity |-> DefaultK]

MetricTables == {"privacy_metrics", "utility_metrics", "compliance_reports"}

\* Math.random(): a value of [0, 1), here the numerator n of n / RandSteps
RandomValues == 0..(RandSteps - 1)

\* the seven calls of Math.random() of one submission, by the field they feed
ScoreNames == {"privacy_risk_score", "leakage_probability", "fidelity_score",
               "similarity_score", "correlation_preservation",
               "distribution_similarity", "ml_efficacy_score"}

Draws == [ScoreNames -> RandomValues]

\* the seven calls all returning 0
LowestDraws == [m \in ScoreNames |-> 0]

\* base + Math.random() * width with base and width in thousandths: the
\* result in units of 1 / (1000 * RandSteps), which keeps it an integer
\* the random term subtracted instead of added
ScoreBelowBase(base, width, n) == base * RandSteps - width * n

Score(base, width, n) == base * RandSteps + width * n

\* the time a clock read returns: a day and the milliseconds into it
Instant(ms) == [day |-> 0, ms |-> ms]

ValidityDays == 365

\* t + 365 * 24 * 60 * 60 * 1000: 24 * 60 * 60 * 1000 ms are one day
AddValidity(t) == [day |-> t.day + ValidityDays, ms |-> t.ms]

\* two successive reads of the clock, none before `from`
ClockReads(from) ==
  {r \in (from..MaxClock) \X (from..MaxClock) : r[1] <= r[2]}

\* both reads in the first millisecond
StoppedClock == <<0, 0>>

\* ---------------------------------------------------- rows the views insert
DefaultFormData == [name |-> "", description |-> "", industry |-> "fintech"]

\* what the user fills in: field and value of one onChange
FormEdits == { <<"name", "Loans">>, <<"name", "">>, <<"industry", "banking">> }

\* the form with a project name, as the browser requires for a submit
NamedForm == [DefaultFormData EXCEPT !.name = "Loans"]

ProjectRow(fd) ==
  [user_id |-> user, name |-> fd.name, description |-> fd.description,
   industry |-> fd.industry]

\* a project of another user
OtherProjectRow == [ProjectRow(NamedForm) EXCEPT !.user_id = OtherUser]

\* the row without its project_id
UploadRowNoProject(projectId, text) ==
  [project_id |-> NoId, schema_json |-> Schema(text),
   row_count |-> RowCount(text), data_type |-> "tabular", status |-> "uploaded"]

UploadRow(projectId, text) ==
  [project_id |-> projectId, schema_json |-> Schema(text),
   row_count |-> RowCount(text), data_type |-> "tabular", status |-> "uploaded"]

\* the row count taken from the schema instead of the fixed 1000
TemplateRowSchemaCount(projectId, template) ==
  [project_id |-> projectId, schema_json |-> template.schema_json,
   row_count |-> Len(template.schema_json), data_type |-> "tabular",
   status |-> "uploaded"]

TemplateRow(projectId, template) ==
  [project_id |-> projectId, schema_json |-> template.schema_json,
   row_count |-> TemplateRowCount, data_type |-> "tabular", status |-> "uploaded"]

\* the row without the submitting user
GenerationRowNoUser(datasetId, p, reads) ==
  [dataset_id |-> datasetId, user_id |-> NoUser, model_type |-> p.model_type,
   parameters |-> p, row_count |-> p.row_count, status |-> "completed",
   started_at |-> Instant(reads[1]), completed_at |-> Instant(reads[2])]

\* reads: what the two new Date() of the insert's argument return
GenerationRow(datasetId, p, reads) ==
  [dataset_id |-> datasetId, user_id |-> user, model_type |-> p.model_type,
   parameters |-> p, row_count |-> p.row_count, status |-> "completed",
   started_at |-> Instant(reads[1]), completed_at |-> Instant(reads[2])]

\* the row with the form's defaults instead of the submitted parameters
PrivacyRowDefaults(genId, p, d) ==
  [generation_id |-> genId, epsilon |-> DefaultEpsilon, k_anonymity |-> DefaultK,
   privacy_risk_score |-> Score(50, 100, d["privacy_risk_score"]),
   leakage_probability |-> Score(1, 5, d["leakage_probability"])]

\* privacyMetrics with generation_id (part_001:84-93, 122-125)
PrivacyRow(genId, p, d) ==
  [generation_id |-> genId, epsilon |-> p.epsilon, k_anonymity |-> p.k_anonymity,
   privacy_risk_score |-> Score(50, 100, d["privacy_risk_score"]),
   leakage_probability |-> Score(1, 5, d["leakage_probability"])]

UtilityRow(genId, d) ==
  [generation_id |-> genId,
   fidelity_score |-> Score(850, 100, d["fidelity_score"]),
   similarity_score |-> Score(880, 80, d["similarity_score"]),
   correlation_preservation |-> Score(900, 80, d["correlation_preservation"]),
   distribution_similarity |-> Score(870, 90, d["distribution_similarity"]),
   ml_efficacy_score |-> Score(820, 120, d["ml_efficacy_score"])]

\* no call of Math.random() made yet
NoDraws == LowestDraws

\* reads: what new Date() and Date.now() of complianceData return
ComplianceRow(genId, p, reads) ==
  [generation_id |-> genId, report_type |-> "kenya_dpa",
   compliance_status |-> "compliant",
   privacy_guarantees |-> PrivacyGuaranteesPrefix \o TenthsToString(p.epsilon),
   anonymization |-> AnonymizationPrefix \o NumberToString(p.k_anonymity),
   generated_at |-> Instant(reads[1]),
   valid_until |-> AddValidity(Instant(reads[2]))]

\* ------------------------------------------------------------------- Init
\* The store already holds another user's project, dataset and generation.
Init ==
  /\ projects = <<OtherProjectRow>>
  /\ datasets = <<TemplateRow(1, Templates[1])>>
  /\ generations = <<[GenerationRow(1, DefaultParams, StoppedClock) EXCEPT !.user_id = OtherUser]>>
  /\ privacy_metrics = <<PrivacyRow(1, DefaultParams, LowestDraws)>>
  /\ utility_metrics = <<UtilityRow(1, LowestDraws)>>
  /\ compliance_reports = <<ComplianceRow(1, DefaultParams, StoppedClock)>>
  /\ currentView = "projects"
  /\ selectedProject = NoId
  /\ selectedDataset = NoId
  /\ plProjects = <<>> /\ showCreateForm = FALSE /\ plLoading = FALSE
  /\ formData = DefaultFormData
  /\ plLoadPending = (user # NoUser)
  /\ createReqs = <<>>
  /\ file = NoFile /\ uploading = FALSE /\ upError = "" /\ upSuccess = FALSE
  /\ templates = <<>> /\ tplLoadPending = FALSE
  /\ uploadReqs = <<>> /\ uploadTimers = <<>>
  /\ genDataset = NoDataset /\ genLoading = FALSE /\ generating = FALSE
  /\ genSuccess = FALSE /\ genError = "" /\ params = DefaultParams
  /\ loadDatasetReqs = <<>>
  /\ genReqs = <<>> /\ genTimers = <<>>
  /\ pmGenerations = <<>> /\ selectedGen = NoId
  /\ pmLoading = FALSE /\ pmLoadPending = FALSE
  /\ stats = ZeroStats
  /\ statsReqs = IF user # NoUser THEN <<NewStatsReq>> ELSE <<>>


\* ------------------------------------------- mounting and unmounting views
\* Dashboard renders exactly the view named by currentView (Dashboard.tsx
\* 169-194): a view that is not rendered has lost its local state, and a
\* handler of it that is still awaiting sets state on nothing (alive = FALSE).
MountProjectList ==
  /\ plProjects' = <<>> /\ showCreateForm' = FALSE /\ plLoading' = FALSE
  /\ formData' = DefaultFormData
  /\ plLoadPending' = (user # NoUser)

ResetProjectList ==
  /\ plProjects' = <<>> /\ showCreateForm' = FALSE /\ plLoading' = FALSE
  /\ formData' = DefaultFormData
  /\ plLoadPending' = FALSE

MountDatasetUpload ==
  /\ file' = NoFile /\ uploading' = FALSE /\ upError' = "" /\ upSuccess' = FALSE
  /\ templates' = <<>> /\ tplLoadPending' = TRUE

ResetDatasetUpload ==
  /\ file' = NoFile /\ uploading' = FALSE /\ upError' = "" /\ upSuccess' = FALSE
  /\ templates' = <<>> /\ tplLoadPending' = FALSE

\* useEffect(() => { if (datasetId) loadDataset() }, [datasetId])
MountSyntheticGenerator(datasetId) ==
  /\ genDataset' = NoDataset /\ generating' = FALSE /\ genSuccess' = FALSE
  /\ genError' = "" /\ params' = DefaultParams
  /\ genLoading' = (datasetId # NoId)
  /\ loadDatasetReqs' = IF datasetId # NoId THEN <<datasetId>> ELSE <<>>

ResetSyntheticGenerator ==
  /\ genDataset' = NoDataset /\ generating' = FALSE /\ genSuccess' = FALSE
  /\ genError' = "" /\ params' = DefaultParams
  /\ genLoading' = FALSE /\ loadDatasetReqs' = <<>>

MountPrivacyMetrics ==
  /\ pmGenerations' = <<>> /\ selectedGen' = NoId /\ pmLoading' = TRUE
  /\ pmLoadPending' = (user # NoUser)

ResetPrivacyMetrics ==
  /\ pmGenerations' = <<>> /\ selectedGen' = NoId /\ pmLoading' = FALSE
  /\ pmLoadPending' = FALSE

\* the datasetId prop of a mounted generator changes: the effect runs again
DatasetIdChanged(datasetId) ==
  /\ UNCHANGED <<genDataset, generating, genSuccess, genError, params>>
  /\ genLoading' = TRUE
  /\ loadDatasetReqs' = Append(loadDatasetReqs, datasetId)

\* setCurrentView(v) and setSelectedDataset(ds), with the in-flight handlers
\* as the calling action leaves them
SwitchView(v, ds, creqs, ureqs, greqs) ==
  /\ currentView' = v
  /\ selectedDataset' = ds
  /\ IF v = currentView
     THEN /\ UNCHANGED <<plVars, upVars, pmVars>>
          /\ createReqs' = creqs /\ uploadReqs' = ureqs /\ genReqs' = greqs
          /\ IF v = "generate" /\ ds # selectedDataset /\ ds # NoId
             THEN DatasetIdChanged(ds)
             ELSE UNCHANGED genVars
     ELSE /\ IF v = "projects" THEN MountProjectList ELSE ResetProjectList
          /\ IF v = "upload" THEN MountDatasetUpload ELSE ResetDatasetUpload
          /\ IF v = "generate" THEN MountSyntheticGenerator(ds)
                               ELSE ResetSyntheticGenerator
          /\ IF v = "metrics" THEN MountPrivacyMetrics ELSE ResetPrivacyMetrics
          /\ createReqs' = IF currentView = "projects" THEN Kill(creqs) ELSE creqs
          /\ uploadReqs' = IF currentView = "upload" THEN Kill(ureqs) ELSE ureqs
          /\ genReqs' = IF currentView = "generate" THEN Kill(greqs) ELSE greqs

\* --------------------------------------------------------------- Dashboard
\* a navigation tab is clicked: onClick={() => setCurrentView(item.view)}
Navigate(v) ==
  /\ v # currentView
  /\ SwitchView(v, selectedDataset, createReqs, uploadReqs, genReqs)
  /\ UNCHANGED <<storeVars, selectedProject, uploadTimers, genTimers,
                 stats, statsReqs>>

\* loadStats(), up to its awaited Promise.all: if (!user) return;
LoadStats ==
  /\ statsReqs' = IF user # NoUser THEN Append(statsReqs, NewStatsReq)
                                   ELSE statsReqs
  /\ UNCHANGED stats

\* the view changes but the dataset id is not threaded through
OnUploadCompleteKeepsDataset(datasetId) ==
  /\ SwitchView("generate", selectedDataset, createReqs, uploadReqs, genReqs)
  /\ LoadStats

\* onUploadComplete, run by the 1.5 s timer of a successful upload
OnUploadComplete(datasetId) ==
  /\ SwitchView("generate", datasetId, createReqs, uploadReqs, genReqs)
  /\ LoadStats

UploadTimerFire ==
  /\ uploadTimers # <<>>
  /\ OnUploadComplete(Head(uploadTimers))
  /\ uploadTimers' = Tail(uploadTimers)
  /\ UNCHANGED <<storeVars, selectedProject, genTimers>>

\* onGenerationComplete, run by the 2 s timer of a successful generation
OnGenerationComplete ==
  /\ SwitchView("metrics", selectedDataset, createReqs, uploadReqs, genReqs)
  /\ LoadStats

GenTimerFire ==
  /\ genTimers # <<>>
  /\ OnGenerationComplete
  /\ genTimers' = Tail(genTimers)
  /\ UNCHANGED <<storeVars, selectedProject, uploadTimers>>

\* ------------------------------------------------------------- ProjectList
LoadProjectsResponse(outcome) ==
  /\ currentView = "projects" /\ plLoadPending
  /\ plLoadPending' = FALSE
  /\ plProjects' = IF outcome = "ok" THEN UserProjectsNewestFirst ELSE plProjects
  /\ UNCHANGED <<storeVars, currentView, selectedProject, selectedDataset,
                 showCreateForm, formData, plLoading, createReqs, upVars,
                 uploadReqs, uploadTimers, genVars, genReqs, genTimers>>
  /\ UNCHANGED <<stats, statsReqs, pmVars>>

OpenCreateForm ==
  /\ currentView = "projects" /\ ~showCreateForm
  /\ showCreateForm' = TRUE
  /\ UNCHANGED <<storeVars, currentView, selectedProject, selectedDataset,
                 plProjects, formData, plLoading, plLoadPending, createReqs,
                 upVars, uploadReqs, uploadTimers, genVars, genReqs, genTimers>>
  /\ UNCHANGED <<stats, statsReqs, pmVars>>

CancelCreateForm ==
  /\ currentView = "projects" /\ showCreateForm
  /\ showCreateForm' = FALSE
  /\ UNCHANGED <<storeVars, currentView, selectedProject, selectedDataset,
                 plProjects, formData, plLoading, plLoadPending, createReqs,
                 upVars, uploadReqs, uploadTimers, genVars, genReqs, genTimers>>
  /\ UNCHANGED <<stats, statsReqs, pmVars>>

\* onChange of a field of the create form
SetFormData(field, value) ==
  /\ currentView = "projects" /\ showCreateForm
  /\ formData' = [formData EXCEPT ![field] = value]
  /\ UNCHANGED <<storeVars, currentView, selectedProject, selectedDataset,
                 plProjects, showCreateForm, plLoading, plLoadPending,
                 createReqs, upVars, uploadReqs, uploadTimers, genVars, genReqs,
                 genTimers>>
  /\ UNCHANGED <<stats, statsReqs, pmVars>>

\* the name input is `required`: the browser submits no form without it
CreateFormValid(fd) == fd.name # ""

\* the form is submitted: up to the awaited insert
HandleCreate ==
  /\ currentView = "projects" /\ showCreateForm /\ ~plLoading
  /\ CreateFormValid(formData)
  /\ user # NoUser
  /\ RowsInUse < MaxRows
  /\ plLoading' = TRUE
  /\ createReqs' = Append(createReqs, [row |-> ProjectRow(formData), alive |-> TRUE])
  /\ UNCHANGED <<storeVars, currentView, selectedProject, selectedDataset,
                 plProjects, showCreateForm, formData, plLoadPending, upVars,
                 uploadReqs, uploadTimers, genVars, genReqs, genTimers>>
  /\ UNCHANGED <<stats, statsReqs, pmVars>>

\* the flag without the final setLoading(false)
LoadingLeftSet(alive) == plLoading

\* setLoading(false) after the if (data) block, in the form that submitted
LoadingAfterCreate(alive) == IF alive THEN FALSE ELSE plLoading

\* the insert returns: the row, then onSelectProject and onNavigateToUpload
CreateResponse(i, outcome) ==
  /\ i \in DOMAIN createReqs
  /\ IF outcome = "ok"
     THEN /\ projects' = InsertRow(projects, createReqs[i].row)
          /\ selectedProject' = Len(projects) + 1
          /\ SwitchView("upload", selectedDataset, Remove(createReqs, i),
                        uploadReqs, genReqs)
          /\ UNCHANGED <<datasets, generations, privacy_metrics,
                         utility_metrics, compliance_reports>>
     ELSE /\ plLoading' = LoadingAfterCreate(createReqs[i].alive)
          /\ createReqs' = Remove(createReqs, i)
          /\ UNCHANGED <<storeVars, currentView, selectedProject,
                         selectedDataset, plProjects, showCreateForm, formData,
                         plLoadPending, upVars, uploadReqs, genVars, genReqs,
                         pmVars>>
  /\ UNCHANGED <<uploadTimers, genTimers, stats, statsReqs>>

\* a project card is clicked
SelectProject(p) ==
  /\ currentView = "projects"
  /\ \E k \in DOMAIN plProjects : plProjects[k] = p
  /\ selectedProject' = p
  /\ SwitchView("upload", selectedDataset, createReqs, uploadReqs, genReqs)
  /\ UNCHANGED <<storeVars, uploadTimers, genTimers, stats, statsReqs>>


\* ----------------------------------------------------------- DatasetUpload
\* the form is rendered only with a project and before success (515, 532)
UploadFormRendered ==
  currentView = "upload" /\ selectedProject # NoId /\ ~upSuccess

LoadTemplatesResponse(outcome) ==
  /\ currentView = "upload" /\ tplLoadPending
  /\ tplLoadPending' = FALSE
  /\ templates' = IF outcome = "ok" THEN Templates ELSE templates
  /\ UNCHANGED <<storeVars, currentView, selectedProject, selectedDataset,
                 plVars, createReqs, file, uploading, upError, upSuccess,
                 uploadReqs, uploadTimers, genVars, genReqs, genTimers>>
  /\ UNCHANGED <<stats, statsReqs, pmVars>>

\* no MIME check
AcceptsAnyFile(f) == TRUE

AcceptsFile(f) == f.type = "text/csv"

HandleFileChange(f) ==
  /\ UploadFormRendered
  /\ IF ~AcceptsFile(f)
     THEN /\ upError' = CsvError
          /\ UNCHANGED file
     ELSE /\ file' = f
          /\ upError' = ""
  /\ UNCHANGED <<storeVars, currentView, selectedProject, selectedDataset,
                 plVars, createReqs, uploading, upSuccess, templates,
                 tplLoadPending, uploadReqs, uploadTimers, genVars, genReqs,
                 genTimers>>
  /\ UNCHANGED <<stats, statsReqs, pmVars>>

\* if (!file || !projectId || !user) return;
CanUpload == file # NoFile /\ selectedProject # NoId /\ user # NoUser

\* the upload form is submitted: file.text() is read and parsed, and either
\* the parse throws (catch, finally) or the insert is awaited
HandleUpload ==
  /\ UploadFormRendered
  /\ file # NoFile /\ ~uploading
  /\ CanUpload
  /\ RowsInUse < MaxRows
  /\ IF ParseThrows(file.text)
     THEN /\ upError' = ErrMessage(TypeErrorMsg, UploadFailed)
          /\ UNCHANGED <<uploading, uploadReqs>>
     ELSE /\ upError' = ""
          /\ uploading' = TRUE
          /\ uploadReqs' = Append(uploadReqs,
                 [kind |-> "file", row |-> UploadRow(selectedProject, file.text),
                  file |-> file, template |-> 0, alive |-> TRUE])
  /\ UNCHANGED <<storeVars, currentView, selectedProject, selectedDataset,
                 plVars, createReqs, file, upSuccess, templates, tplLoadPending,
                 uploadTimers, genVars, genReqs, genTimers>>
  /\ UNCHANGED <<stats, statsReqs, pmVars>>

\* if (!projectId || !user) return;
CanSelectTemplate == selectedProject # NoId /\ user # NoUser

\* a template card is clicked: up to the awaited insert
HandleTemplateSelect(t) ==
  /\ UploadFormRendered
  /\ t \in DOMAIN templates /\ ~uploading
  /\ CanSelectTemplate
  /\ RowsInUse < MaxRows
  /\ uploading' = TRUE
  /\ uploadReqs' = Append(uploadReqs,
         [kind |-> "template", row |-> TemplateRow(selectedProject, templates[t]),
          file |-> NoFile, template |-> t, alive |-> TRUE])
  /\ UNCHANGED <<storeVars, currentView, selectedProject, selectedDataset,
                 plVars, createReqs, file, upError, upSuccess, templates,
                 tplLoadPending, uploadTimers, genVars, genReqs, genTimers>>
  /\ UNCHANGED <<stats, statsReqs, pmVars>>

\* no fallback text
UploadFallbackNone(kind) == ""

\* err.message || 'Upload failed' / 'Template creation failed'
UploadFallback(kind) == IF kind = "file" THEN UploadFailed ELSE TemplateFailed

\* the dataset insert of handleUpload / handleTemplateSelect returns
UploadResponse(i, outcome, msg) ==
  /\ i \in DOMAIN uploadReqs
  /\ LET req == uploadReqs[i] IN
     IF outcome = "ok"
     THEN /\ datasets' = InsertRow(datasets, req.row)
          /\ upSuccess' = IF req.alive THEN TRUE ELSE upSuccess
          /\ uploadTimers' = Append(uploadTimers, Len(datasets) + 1)
          /\ UNCHANGED upError
     ELSE /\ upError' = IF req.alive THEN ErrMessage(msg, UploadFallback(req.kind))
                                     ELSE upError
          /\ UNCHANGED <<datasets, upSuccess, uploadTimers>>
  /\ uploading' = IF uploadReqs[i].alive THEN FALSE ELSE uploading
  /\ uploadReqs' = Remove(uploadReqs, i)
  /\ UNCHANGED <<projects, generations, privacy_metrics, utility_metrics,
                 compliance_reports, currentView, selectedProject,
                 selectedDataset, plVars, createReqs, file, templates,
                 tplLoadPending, genVars, genReqs, genTimers>>
  /\ UNCHANGED <<stats, statsReqs, pmVars>>

\* ------------------------------------------------------ SyntheticGenerator
\* the form rendered whether or not a dataset id was passed
GenerateFormRenderedNoDatasetCheck ==
  currentView = "generate" /\ ~genLoading /\ ~genSuccess

\* the form is rendered with a dataset id, after loading, before success
GenerateFormRendered ==
  currentView = "generate" /\ selectedDataset # NoId /\ ~genLoading /\ ~genSuccess

LoadDatasetResponse(i, outcome) ==
  /\ currentView = "generate"
  /\ i \in DOMAIN loadDatasetReqs
  /\ LET id == loadDatasetReqs[i] IN
     IF outcome = "ok"
     THEN /\ genDataset' = [id |-> id, row_count |-> datasets[id].row_count]
          /\ params' = [params EXCEPT
                          !.row_count = Max(datasets[id].row_count, MinPrefillRows)]
     ELSE UNCHANGED <<genDataset, params>>
  /\ genLoading' = FALSE
  /\ loadDatasetReqs' = Remove(loadDatasetReqs, i)
  /\ UNCHANGED <<storeVars, currentView, selectedProject, selectedDataset,
                 plVars, createReqs, upVars, uploadReqs, uploadTimers,
                 generating, genSuccess, genError, genReqs, genTimers>>
  /\ UNCHANGED <<stats, statsReqs, pmVars>>

\* if (!datasetId || !user) return;
CanGenerate == selectedDataset # NoId /\ user # NoUser

\* The number inputs show params.*; a NaN shows as an empty field.  Before
\* the submit event the browser validates them against min, max and step
\* (the step counted from min); an empty field passes, none being required.
FieldValid(v, min, max, step) ==
  v = NaN \/ (min <= v /\ v <= max /\ (v - min) % step = 0)

FormValid(p) ==
  /\ FieldValid(p.row_count, MinRowCount, MaxRowCount, RowCountStep)
  /\ FieldValid(p.epsilon, MinEpsilon, MaxEpsilon, EpsilonStep)
  /\ FieldValid(p.k_anonymity, MinK, MaxK, KStep)

\* what the user types into the three number inputs
RowCountTexts == { <<>>, <<"9","9">>, <<"1","1","0","0">> }
EpsilonTexts == { <<>>, <<"0",".","5">>, <<"1",".","0">>, <<"1","1">> }
KTexts == { <<>>, <<"1">>, <<"2","0">> }

\* a row count on the step grid of the input: 100 + 1000
AlignedRowCountText == <<"1","1","0","0">>

\* onChange of the row count input
SetRowCount(text) ==
  /\ GenerateFormRendered
  /\ params' = [params EXCEPT !.row_count = ParseInt(text)]
  /\ UNCHANGED <<storeVars, currentView, selectedProject, selectedDataset,
                 plVars, createReqs, upVars, uploadReqs, uploadTimers,
                 genDataset, genLoading, generating, genSuccess, genError,
                 loadDatasetReqs, genReqs, genTimers>>
  /\ UNCHANGED <<stats, statsReqs, pmVars>>

\* onChange of the epsilon input
SetEpsilon(text) ==
  /\ GenerateFormRendered
  /\ params' = [params EXCEPT !.epsilon = ParseFloat(text)]
  /\ UNCHANGED <<storeVars, currentView, selectedProject, selectedDataset,
                 plVars, createReqs, upVars, uploadReqs, uploadTimers,
                 genDataset, genLoading, generating, genSuccess, genError,
                 loadDatasetReqs, genReqs, genTimers>>
  /\ UNCHANGED <<stats, statsReqs, pmVars>>

\* onChange of the k-anonymity input
SetKAnonymity(text) ==
  /\ GenerateFormRendered
  /\ params' = [params EXCEPT !.k_anonymity = ParseInt(text)]
  /\ UNCHANGED <<storeVars, currentView, selectedProject, selectedDataset,
                 plVars, createReqs, upVars, uploadReqs, uploadTimers,
                 genDataset, genLoading, generating, genSuccess, genError,
                 loadDatasetReqs, genReqs, genTimers>>
  /\ UNCHANGED <<stats, statsReqs, pmVars>>

\* the generate form is submitted: up to the awaited Generation insert
HandleGenerate(reads) ==
  /\ GenerateFormRendered
  /\ ~generating
  /\ FormValid(params)
  /\ CanGenerate
  /\ RowsInUse < MaxRows
  /\ generating' = TRUE
  /\ genError' = ""
  /\ genReqs' = Append(genReqs,
         [stage |-> "gen", row |-> GenerationRow(selectedDataset, params, reads),
          gen |-> NoId, pending |-> {}, draws |-> NoDraws, clock |-> reads,
          alive |-> TRUE])
  /\ UNCHANGED <<storeVars, currentView, selectedProject, selectedDataset,
                 plVars, createReqs, upVars, uploadReqs, uploadTimers,
                 genDataset, genLoading, genSuccess, params, loadDatasetReqs,
                 genTimers>>
  /\ UNCHANGED <<stats, statsReqs, pmVars>>

\* the Generation insert returns: on a row the three inserts are issued
\* together, on an error the catch and finally blocks run
GenerationResponse(i, outcome, msg, d, reads) ==
  /\ i \in DOMAIN genReqs
  /\ genReqs[i].stage = "gen"
  /\ LET req == genReqs[i] IN
     IF outcome = "ok"
     THEN /\ generations' = InsertRow(generations, req.row)
          /\ genReqs' = [genReqs EXCEPT ![i] =
                 [req EXCEPT !.stage = "metrics", !.gen = Len(generations) + 1,
                             !.pending = MetricTables, !.draws = d,
                             !.clock = reads]]
          /\ UNCHANGED <<generating, genError>>
     ELSE /\ genError' = IF req.alive THEN ErrMessage(msg, GenerationFailed)
                                      ELSE genError
          /\ generating' = IF req.alive THEN FALSE ELSE generating
          /\ genReqs' = Remove(genReqs, i)
          /\ UNCHANGED generations
  /\ UNCHANGED <<projects, datasets, privacy_metrics, utility_metrics,
                 compliance_reports, currentView, selectedProject,
                 selectedDataset, plVars, createReqs, upVars, uploadReqs,
                 uploadTimers, genDataset, genLoading, genSuccess, params,
                 loadDatasetReqs, genTimers>>
  /\ UNCHANGED <<stats, statsReqs, pmVars>>

\* the rows under the id that follows the Generation's
MetricRowNextId(tbl, genId, p, d, reads) ==
  CASE tbl = "privacy_metrics" -> PrivacyRow(genId + 1, p, d)
    [] tbl = "utility_metrics" -> UtilityRow(genId + 1, d)
    [] tbl = "compliance_reports" -> ComplianceRow(genId + 1, p, reads)

\* the three rows of generation.id (part_001:121-134)
MetricRow(tbl, genId, p, d, reads) ==
  CASE tbl = "privacy_metrics" -> PrivacyRow(genId, p, d)
    [] tbl = "utility_metrics" -> UtilityRow(genId, d)
    [] tbl = "compliance_reports" -> ComplianceRow(genId, p, reads)

\* a race instead: resolved as soon as one request has resolved
AnySettled(pending) == TRUE

\* Promise.all resolves once the three requests have resolved; what they
\* resolved with is not read (part_001:121-134)
AllSettled(pending) == pending = {}

\* one of the three inserts returns; when it is the last one, setSuccess(true),
\* the 2 s timer and the finally block follow
MetricsResponse(i, tbl, outcome) ==
  /\ i \in DOMAIN genReqs
  /\ genReqs[i].stage = "metrics"
  /\ tbl \in genReqs[i].pending
  /\ LET req == genReqs[i]
         row == MetricRow(tbl, req.gen, req.row.parameters, req.draws, req.clock)
         left == req.pending \ {tbl}
     IN /\ privacy_metrics' = IF outcome = "ok" /\ tbl = "privacy_metrics"
                              THEN InsertRow(privacy_metrics, row) ELSE privacy_metrics
        /\ utility_metrics' = IF outcome = "ok" /\ tbl = "utility_metrics"
                              THEN InsertRow(utility_metrics, row) ELSE utility_metrics
        /\ compliance_reports' = IF outcome = "ok" /\ tbl = "compliance_reports"
                                 THEN InsertRow(compliance_reports, row)
                                 ELSE compliance_reports
        /\ IF AllSettled(left)
           THEN /\ genSuccess' = IF req.alive THEN TRUE ELSE genSuccess
                /\ generating' = IF req.alive THEN FALSE ELSE generating
                /\ genTimers' = Append(genTimers, req.gen)
                /\ genReqs' = Remove(genReqs, i)
           ELSE /\ genReqs' = [genReqs EXCEPT ![i] = [req EXCEPT !.pending = left]]
                /\ UNCHANGED <<genSuccess, generating, genTimers>>
  /\ UNCHANGED <<projects, datasets, generations, currentView, selectedProject,
                 selectedDataset, plVars, createReqs, upVars, uploadReqs,
                 uploadTimers, genDataset, genLoading, genError, params,
                 loadDatasetReqs>>
  /\ UNCHANGED <<stats, statsReqs, pmVars>>

\* ---------------------------------------------------------- PrivacyMetrics
\* loadGenerations returns: the user's generations newest first, the first
\* of them selected
LoadGenerationsResponse(outcome) ==
  /\ currentView = "metrics" /\ pmLoadPending
  /\ pmLoadPending' = FALSE
  /\ IF outcome = "ok"
     THEN /\ pmGenerations' = UserGenerationsNewestFirst
          /\ selectedGen' = IF Len(UserGenerationsNewestFirst) > 0
                            THEN UserGenerationsNewestFirst[1] ELSE selectedGen
     ELSE UNCHANGED <<pmGenerations, selectedGen>>
  /\ pmLoading' = FALSE
  /\ UNCHANGED <<storeVars, currentView, selectedProject, selectedDataset,
                 stats, statsReqs, plVars, createReqs, upVars, uploadReqs,
                 uploadTimers, genVars, genReqs, genTimers>>

\* a generation of the list is clicked
SelectGeneration(g) ==
  /\ currentView = "metrics" /\ ~pmLoading
  /\ \E k \in DOMAIN pmGenerations : pmGenerations[k] = g
  /\ selectedGen' = g
  /\ UNCHANGED <<storeVars, currentView, selectedProject, selectedDataset,
                 stats, statsReqs, plVars, createReqs, upVars, uploadReqs,
                 uploadTimers, genVars, genReqs, genTimers, pmGenerations,
                 pmLoading, pmLoadPending>>

\* ------------------------------------------------------ Dashboard: loadStats
\* one of the three selects of a loadStats call returns; when it is the last
\* one, Promise.all resolves and setStats follows
StatsSelectResponse(i, tbl, outcome) ==
  /\ i \in DOMAIN statsReqs
  /\ tbl \in statsReqs[i].pending
  /\ LET req == statsReqs[i]
         counts == [req.counts EXCEPT ![tbl] =
                      IF outcome = "ok" THEN CountOf(tbl) ELSE NoCount]
         left == req.pending \ {tbl}
     IN /\ statsReqs' = [statsReqs EXCEPT ![i] =
                             [pending |-> left, counts |-> counts]]
        /\ IF left = {}
           THEN stats' = [totalProjects |-> OrZero(counts["projects"]),
                          totalDatasets |-> OrZero(counts["datasets"]),
                          totalGenerations |-> OrZero(counts["synthetic_generations"]),
                          recentActivity |-> OrZero(counts["synthetic_generations"])]
           ELSE UNCHANGED stats
  /\ UNCHANGED <<storeVars, currentView, selectedProject, selectedDataset,
                 plVars, createReqs, upVars, uploadReqs, uploadTimers,
                 genVars, genReqs, genTimers, pmVars>>

\* -------------------------------------------------------------------- Next
\* Spec follows the order of the requests and what the views show: the one
\* edit of its form puts the row count on the step grid, the scores of its
\* metrics rows are those of the lowest draws and its clock reads all fall
\* into one millisecond.  FormSpec, MetricsSpec and ClockSpec below take
\* every edit, every draw and every advance of the clock.
Next ==
  \/ \E v \in Views : Navigate(v)
  \/ UploadTimerFire
  \/ GenTimerFire
  \/ \E o \in InsertOutcomes : LoadProjectsResponse(o)
  \/ OpenCreateForm
  \/ CancelCreateForm
  \/ SetFormData("name", NamedForm.name)
  \/ HandleCreate
  \/ \E i \in DOMAIN createReqs, o \in InsertOutcomes : CreateResponse(i, o)
  \/ \E p \in DOMAIN projects : SelectProject(p)
  \/ \E o \in InsertOutcomes : LoadTemplatesResponse(o)
  \/ \E f \in Files : HandleFileChange(f)
  \/ HandleUpload
  \/ \E t \in DOMAIN Templates : HandleTemplateSelect(t)
  \/ \E i \in DOMAIN uploadReqs, o \in InsertOutcomes, m \in {DbError, ""} :
        UploadResponse(i, o, m)
  \/ \E i \in DOMAIN loadDatasetReqs, o \in InsertOutcomes : LoadDatasetResponse(i, o)
  \/ SetRowCount(AlignedRowCountText)
  \/ HandleGenerate(StoppedClock)
  \/ \E i \in DOMAIN genReqs, o \in InsertOutcomes, m \in {DbError, ""},
          d \in {LowestDraws} :
        GenerationResponse(i, o, m, d, StoppedClock)
  \/ \E i \in DOMAIN genReqs, tbl \in MetricTables, o \in InsertOutcomes :
        MetricsResponse(i, tbl, o)
  \/ \E o \in InsertOutcomes : LoadGenerationsResponse(o)
  \/ \E g \in DOMAIN generations : SelectGeneration(g)

Spec == Init /\ [][Next]_vars


\* ------------------------------------------------- the upload path on texts
\* File texts built from up to MaxTokens tokens, and the two headers of the
\* documented scenarios.
Tokens == { <<"a">>, <<"i","d">>, <<"I","D">>, <<"n","a","m","e">>,
            <<"p","h","o","n","e">>, <<",">>, <<" ">>, <<"\r">>, <<"\n">> }

RECURSIVE TokenTexts(_)
TokenTexts(n) ==
  IF n = 0 THEN {<<>>}
  ELSE LET S == TokenTexts(n - 1) IN S \cup {s \o t : s \in S, t \in Tokens}

HeaderAbId == <<"a",",","b",",","i","d">>
HeaderCustomer == <<"c","u","s","t","o","m","e","r","_","i","d",",",
                    "a","m","o","u","n","t",",","p","h","o","n","e">>

ExampleTexts ==
  { HeaderAbId,
    HeaderCustomer \o <<"\n","7",",","1",",","0","\n","\n","8",",","2",",","0","\n">>,
    <<" ","I","d"," ",",","\t","N","a","m","e","\r","\n","\r","\n","1",",","x","\r","\n">> }

ParseFiles ==
  {[name |-> "t.csv", type |-> "text/csv", text |-> t] :
      t \in (TokenTexts(MaxTokens) \cup ExampleTexts) \ {<<>>}}

\* A project was created (view 'upload'), the templates are loaded and a CSV
\* file has been picked.
ParseInit ==
  /\ projects = <<OtherProjectRow, ProjectRow(NamedForm)>>
  /\ datasets = <<TemplateRow(1, Templates[1])>>
  /\ generations = <<[GenerationRow(1, DefaultParams, StoppedClock) EXCEPT !.user_id = OtherUser]>>
  /\ privacy_metrics = <<PrivacyRow(1, DefaultParams, LowestDraws)>>
  /\ utility_metrics = <<UtilityRow(1, LowestDraws)>>
  /\ compliance_reports = <<ComplianceRow(1, DefaultParams, StoppedClock)>>
  /\ currentView = "upload"
  /\ selectedProject = 2
  /\ selectedDataset = NoId
  /\ plProjects = <<>> /\ showCreateForm = FALSE /\ plLoading = FALSE
  /\ formData = DefaultFormData
  /\ plLoadPending = FALSE
  /\ createReqs = <<>>
  /\ file \in ParseFiles
  /\ uploading = FALSE /\ upError = "" /\ upSuccess = FALSE
  /\ templates = Templates /\ tplLoadPending = FALSE
  /\ uploadReqs = <<>> /\ uploadTimers = <<>>
  /\ genDataset = NoDataset /\ genLoading = FALSE /\ generating = FALSE
  /\ genSuccess = FALSE /\ genError = "" /\ params = DefaultParams
  /\ loadDatasetReqs = <<>>
  /\ genReqs = <<>> /\ genTimers = <<>>
  /\ pmGenerations = <<>> /\ selectedGen = NoId
  /\ pmLoading = FALSE /\ pmLoadPending = FALSE
  /\ stats = ZeroStats
  /\ statsReqs = IF user # NoUser THEN <<NewStatsReq>> ELSE <<>>

ParseNext ==
  \/ HandleUpload
  \/ \E i \in DOMAIN uploadReqs, o \in InsertOutcomes, m \in {DbError, ""} :
        UploadResponse(i, o, m)

ParseSpec == ParseInit /\ [][ParseNext]_vars

\* timers fire: a scheduled setTimeout callback is eventually run
FairSpec == Spec /\ WF_vars(UploadTimerFire) /\ WF_vars(GenTimerFire)

\* The session from the creation of its project on (view 'upload', just
\* mounted), with no further project and no generation submitted.
UploadInit ==
  /\ projects = <<OtherProjectRow, ProjectRow(NamedForm)>>
  /\ datasets = <<TemplateRow(1, Templates[1])>>
  /\ generations = <<[GenerationRow(1, DefaultParams, StoppedClock) EXCEPT !.user_id = OtherUser]>>
  /\ privacy_metrics = <<PrivacyRow(1, DefaultParams, LowestDraws)>>
  /\ utility_metrics = <<UtilityRow(1, LowestDraws)>>
  /\ compliance_reports = <<ComplianceRow(1, DefaultParams, StoppedClock)>>
  /\ currentView = "upload"
  /\ selectedProject = 2
  /\ selectedDataset = NoId
  /\ plProjects = <<>> /\ showCreateForm = FALSE /\ plLoading = FALSE
  /\ formData = DefaultFormData
  /\ plLoadPending = FALSE
  /\ createReqs = <<>>
  /\ file = NoFile
  /\ uploading = FALSE /\ upError = "" /\ upSuccess = FALSE
  /\ templates = <<>> /\ tplLoadPending = TRUE
  /\ uploadReqs = <<>> /\ uploadTimers = <<>>
  /\ genDataset = NoDataset /\ genLoading = FALSE /\ generating = FALSE
  /\ genSuccess = FALSE /\ genError = "" /\ params = DefaultParams
  /\ loadDatasetReqs = <<>>
  /\ genReqs = <<>> /\ genTimers = <<>>
  /\ pmGenerations = <<>> /\ selectedGen = NoId
  /\ pmLoading = FALSE /\ pmLoadPending = FALSE
  /\ stats = ZeroStats
  /\ statsReqs = IF user # NoUser THEN <<NewStatsReq>> ELSE <<>>

UploadNext ==
  \/ \E v \in Views : Navigate(v)
  \/ UploadTimerFire
  \/ \E o \in InsertOutcomes : LoadProjectsResponse(o)
  \/ \E p \in DOMAIN projects : SelectProject(p)
  \/ \E o \in InsertOutcomes : LoadTemplatesResponse(o)
  \/ \E f \in Files : HandleFileChange(f)
  \/ HandleUpload
  \/ \E t \in DOMAIN Templates : HandleTemplateSelect(t)
  \/ \E i \in DOMAIN uploadReqs, o \in InsertOutcomes, m \in {DbError, ""} :
        UploadResponse(i, o, m)
  \/ \E i \in DOMAIN loadDatasetReqs, o \in InsertOutcomes : LoadDatasetResponse(i, o)

UploadFairSpec == UploadInit /\ [][UploadNext]_vars /\ WF_vars(UploadTimerFire)


\* --------------------------------------------- the project list on its own
\* the ProjectList view with every edit of its form, and the navigation
ProjectNext ==
  \/ \E v \in Views : Navigate(v)
  \/ \E o \in InsertOutcomes : LoadProjectsResponse(o)
  \/ OpenCreateForm
  \/ CancelCreateForm
  \/ \E e \in FormEdits : SetFormData(e[1], e[2])
  \/ HandleCreate
  \/ \E i \in DOMAIN createReqs, o \in InsertOutcomes : CreateResponse(i, o)
  \/ \E p \in DOMAIN projects : SelectProject(p)

ProjectSpec == Init /\ [][ProjectNext]_vars

\* ------------------------------------------------- the metrics view alone
\* Two generations of the session are stored, a generation of another user
\* after them; the second completion timer has just made 'metrics' the
\* active view and called loadStats.
MetricsViewInit ==
  /\ projects = <<OtherProjectRow, ProjectRow(NamedForm)>>
  /\ datasets = <<TemplateRow(1, Templates[1]), TemplateRow(2, Templates[1])>>
  /\ generations =
       <<GenerationRow(2, DefaultParams, StoppedClock),
         GenerationRow(2, DefaultParams, StoppedClock),
         [GenerationRow(1, DefaultParams, StoppedClock) EXCEPT !.user_id = OtherUser]>>
  /\ privacy_metrics = <<PrivacyRow(1, DefaultParams, LowestDraws),
                         PrivacyRow(2, DefaultParams, LowestDraws),
                         PrivacyRow(3, DefaultParams, LowestDraws)>>
  /\ utility_metrics = <<UtilityRow(1, LowestDraws), UtilityRow(2, LowestDraws),
                         UtilityRow(3, LowestDraws)>>
  /\ compliance_reports = <<ComplianceRow(1, DefaultParams, StoppedClock),
                            ComplianceRow(2, DefaultParams, StoppedClock),
                            ComplianceRow(3, DefaultParams, StoppedClock)>>
  /\ currentView = "metrics"
  /\ selectedProject = 2
  /\ selectedDataset = 2
  /\ plProjects = <<>> /\ showCreateForm = FALSE /\ plLoading = FALSE
  /\ formData = DefaultFormData
  /\ plLoadPending = FALSE
  /\ createReqs = <<>>
  /\ file = NoFile
  /\ uploading = FALSE /\ upError = "" /\ upSuccess = FALSE
  /\ templates = <<>> /\ tplLoadPending = FALSE
  /\ uploadReqs = <<>> /\ uploadTimers = <<>>
  /\ genDataset = NoDataset /\ genLoading = FALSE /\ generating = FALSE
  /\ genSuccess = FALSE /\ genError = "" /\ params = DefaultParams
  /\ loadDatasetReqs = <<>>
  /\ genReqs = <<>> /\ genTimers = <<>>
  /\ pmGenerations = <<>> /\ selectedGen = NoId
  /\ pmLoading = TRUE /\ pmLoadPending = TRUE
  /\ stats = ZeroStats
  /\ statsReqs = <<NewStatsReq>>

MetricsViewNext ==
  \/ \E v \in Views : Navigate(v)
  \/ \E o \in InsertOutcomes : LoadGenerationsResponse(o)
  \/ \E g \in DOMAIN generations : SelectGeneration(g)
  \/ \E o \in InsertOutcomes : LoadProjectsResponse(o)
  \/ \E i \in DOMAIN statsReqs, tbl \in StatsTables, o \in InsertOutcomes :
        StatsSelectResponse(i, tbl, o)

MetricsViewSpec == MetricsViewInit /\ [][MetricsViewNext]_vars

\* ------------------------------------------ the generator on all its inputs
\* The session with a project and a template dataset of its own, the view
\* 'generate' mounted for that dataset and the dataset loaded.
GenerateInit ==
  /\ projects = <<OtherProjectRow, ProjectRow(NamedForm)>>
  /\ datasets = <<TemplateRow(1, Templates[1]), TemplateRow(2, Templates[1])>>
  /\ generations = <<[GenerationRow(1, DefaultParams, StoppedClock) EXCEPT !.user_id = OtherUser]>>
  /\ privacy_metrics = <<PrivacyRow(1, DefaultParams, LowestDraws)>>
  /\ utility_metrics = <<UtilityRow(1, LowestDraws)>>
  /\ compliance_reports = <<ComplianceRow(1, DefaultParams, StoppedClock)>>
  /\ currentView = "generate"
  /\ selectedProject = 2
  /\ selectedDataset = 2
  /\ plProjects = <<>> /\ showCreateForm = FALSE /\ plLoading = FALSE
  /\ formData = DefaultFormData
  /\ plLoadPending = FALSE
  /\ createReqs = <<>>
  /\ file = NoFile
  /\ uploading = FALSE /\ upError = "" /\ upSuccess = FALSE
  /\ templates = <<>> /\ tplLoadPending = FALSE
  /\ uploadReqs = <<>> /\ uploadTimers = <<>>
  /\ genDataset = [id |-> 2, row_count |-> TemplateRowCount]
  /\ genLoading = FALSE /\ generating = FALSE
  /\ genSuccess = FALSE /\ genError = ""
  /\ params = [DefaultParams EXCEPT !.row_count = Max(TemplateRowCount, MinPrefillRows)]
  /\ loadDatasetReqs = <<>>
  /\ genReqs = <<>> /\ genTimers = <<>>
  /\ pmGenerations = <<>> /\ selectedGen = NoId
  /\ pmLoading = FALSE /\ pmLoadPending = FALSE
  /\ stats = ZeroStats
  /\ statsReqs = IF user # NoUser THEN <<NewStatsReq>> ELSE <<>>

\* handleGenerate alone, with every combination of the seven draws
MetricsNext ==
  \/ SetRowCount(AlignedRowCountText)
  \/ HandleGenerate(StoppedClock)
  \/ \E i \in DOMAIN genReqs, d \in Draws : GenerationResponse(i, "ok", "", d, StoppedClock)
  \/ \E i \in DOMAIN genReqs, m \in {DbError, ""} :
        GenerationResponse(i, "error", m, NoDraws, StoppedClock)
  \/ \E i \in DOMAIN genReqs, tbl \in MetricTables, o \in InsertOutcomes :
        MetricsResponse(i, tbl, o)

MetricsSpec == GenerateInit /\ [][MetricsNext]_vars

\* the form with every edit of its three number inputs, and handleGenerate
FormNext ==
  \/ \E t \in RowCountTexts : SetRowCount(t)
  \/ \E t \in EpsilonTexts : SetEpsilon(t)
  \/ \E t \in KTexts : SetKAnonymity(t)
  \/ HandleGenerate(StoppedClock)
  \/ \E i \in DOMAIN genReqs, o \in InsertOutcomes, m \in {DbError, ""} :
        GenerationResponse(i, o, m, LowestDraws, StoppedClock)
  \/ \E i \in DOMAIN genReqs, tbl \in MetricTables, o \in InsertOutcomes :
        MetricsResponse(i, tbl, o)

FormSpec == GenerateInit /\ [][FormNext]_vars

\* handleGenerate with the clock advancing between its reads
ClockNext ==
  \/ SetRowCount(AlignedRowCountText)
  \/ \E r \in ClockReads(0) : HandleGenerate(r)
  \/ \E i \in DOMAIN genReqs, o \in InsertOutcomes, m \in {DbError, ""} :
        \E r \in ClockReads(genReqs[i].clock[2]) :
          GenerationResponse(i, o, m, LowestDraws, r)
  \/ \E i \in DOMAIN genReqs, tbl \in MetricTables, o \in InsertOutcomes :
        MetricsResponse(i, tbl, o)

ClockSpec == GenerateInit /\ [][ClockNext]_vars


\* ------------------------------------ the project list beside loadStats
\* the project list with the selects of the Dashboard's loadStats, every
\* one of which succeeds
ProjectStatsNext ==
  \/ ProjectNext
  \/ \E i \in DOMAIN statsReqs, tbl \in StatsTables :
        StatsSelectResponse(i, tbl, "ok")

ProjectStatsSpec == Init /\ [][ProjectStatsNext]_vars

\* ------------------------------------ leaving the generator and returning
\* The store holds a project and a dataset of another user and of the
\* session, and no generation; the generate form is loaded.  The user
\* submits, and switches between the Generate and the Settings tab.
ResubmitInit ==
  /\ projects = <<OtherProjectRow, ProjectRow(NamedForm)>>
  /\ datasets = <<TemplateRow(1, Templates[1]), TemplateRow(2, Templates[1])>>
  /\ generations = <<>>
  /\ privacy_metrics = <<>> /\ utility_metrics = <<>>
  /\ compliance_reports = <<>>
  /\ currentView = "generate"
  /\ selectedProject = 2
  /\ selectedDataset = 2
  /\ plProjects = <<>> /\ showCreateForm = FALSE /\ plLoading = FALSE
  /\ formData = DefaultFormData
  /\ plLoadPending = FALSE
  /\ createReqs = <<>>
  /\ file = NoFile
  /\ uploading = FALSE /\ upError = "" /\ upSuccess = FALSE
  /\ templates = <<>> /\ tplLoadPending = FALSE
  /\ uploadReqs = <<>> /\ uploadTimers = <<>>
  /\ genDataset = [id |-> 2, row_count |-> TemplateRowCount]
  /\ genLoading = FALSE /\ generating = FALSE
  /\ genSuccess = FALSE /\ genError = ""
  /\ params = [DefaultParams EXCEPT !.row_count = Max(TemplateRowCount, MinPrefillRows)]
  /\ loadDatasetReqs = <<>>
  /\ genReqs = <<>> /\ genTimers = <<>>
  /\ pmGenerations = <<>> /\ selectedGen = NoId
  /\ pmLoading = FALSE /\ pmLoadPending = FALSE
  /\ stats = ZeroStats
  /\ statsReqs = <<NewStatsReq>>

ResubmitNext ==
  \/ \E v \in {"generate", "settings"} : Navigate(v)
  \/ \E i \in DOMAIN loadDatasetReqs, o \in InsertOutcomes : LoadDatasetResponse(i, o)
  \/ SetRowCount(AlignedRowCountText)
  \/ HandleGenerate(StoppedClock)
  \/ \E i \in DOMAIN genReqs, o \in InsertOutcomes, msg \in {DbError} :
        GenerationResponse(i, o, msg, LowestDraws, StoppedClock)
  \/ \E i \in DOMAIN genReqs, tbl \in MetricTables, o \in InsertOutcomes :
        MetricsResponse(i, tbl, o)
  \/ GenTimerFire

ResubmitSpec == ResubmitInit /\ [][ResubmitNext]_vars

\* ------------------------------------- loadStats beside a generation
\* The loadStats call of the upload's completion is pending when the
\* generator is used; the completion of the generation calls it again.
StatsNext ==
  \/ SetRowCount(AlignedRowCountText)
  \/ HandleGenerate(StoppedClock)
  \/ \E i \in DOMAIN genReqs, o \in InsertOutcomes, msg \in {DbError} :
        GenerationResponse(i, o, msg, LowestDraws, StoppedClock)
  \/ \E i \in DOMAIN genReqs, tbl \in MetricTables, o \in InsertOutcomes :
        MetricsResponse(i, tbl, o)
  \/ GenTimerFire
  \/ \E o \in InsertOutcomes : LoadGenerationsResponse(o)
  \/ \E i \in DOMAIN statsReqs, tbl \in StatsTables, o \in InsertOutcomes :
        StatsSelectResponse(i, tbl, o)

StatsSpec == GenerateInit /\ [][StatsNext]_vars

\* ------------------------------------------------------------- properties
HasRow(table, g) == \E i \in DOMAIN table : table[i].generation_id = g

InFlight(g) == \E i \in DOMAIN genReqs : genReqs[i].gen = g

Extends(new, old) == Len(new) >= Len(old) /\ SubSeq(new, 1, Len(old)) = old

Last(table) == table[Len(table)]

UploadTimerIds == {uploadTimers[i] : i \in DOMAIN uploadTimers}

\* C1: once a generation submission has finished, its Generation row has all
\* three of its privacy_metrics, utility_metrics and compliance_reports rows
\* or none of them.
C1_AllOrNone ==
  \A g \in DOMAIN generations :
    ~InFlight(g) =>
      \/ HasRow(privacy_metrics, g) /\ HasRow(utility_metrics, g)
           /\ HasRow(compliance_reports, g)
      \/ ~HasRow(privacy_metrics, g) /\ ~HasRow(utility_metrics, g)
           /\ ~HasRow(compliance_reports, g)

\* C2: a submission one of whose three inserts failed never enters success:
\* no completion timer (onGenerationComplete) is pending for a Generation
\* that lacks one of its three rows.
C2_FailureAbortsSuccess ==
  \A k \in DOMAIN genTimers :
    /\ HasRow(privacy_metrics, genTimers[k])
    /\ HasRow(utility_metrics, genTimers[k])
    /\ HasRow(compliance_reports, genTimers[k])

\* C3: every step of every action leaves each table an extension of what it
\* was: no row is deleted and no field of an existing row changes.
C3_AppendOnly ==
  [][ /\ Extends(projects', projects)
      /\ Extends(datasets', datasets)
      /\ Extends(generations', generations)
      /\ Extends(privacy_metrics', privacy_metrics)
      /\ Extends(utility_metrics', utility_metrics)
      /\ Extends(compliance_reports', compliance_reports) ]_vars

\* a finished submission whose Generation row stays without a metrics row
C3_Witness ==
  \E g \in DOMAIN generations :
    /\ generations[g].user_id = user
    /\ ~InFlight(g)
    /\ ~HasRow(privacy_metrics, g)
    /\ HasRow(utility_metrics, g)

\* C4: every Dataset row references an existing Project row, and no dataset
\* insert is pending or committed while no project is selected.
C4_DatasetProject ==
  /\ [](\A d \in DOMAIN datasets : datasets[d].project_id \in DOMAIN projects)
  /\ [](uploadReqs # <<>> => selectedProject # NoId)
  /\ [][datasets' # datasets => selectedProject # NoId]_vars

C4_Witness ==
  \E d \in DOMAIN datasets :
    /\ datasets[d].project_id = selectedProject
    /\ projects[selectedProject].user_id = user

\* C5: every Generation row references an existing Dataset row, and a row
\* inserted by the session carries the id of the signed-in user.
C5_GenerationRefs ==
  /\ [](\A g \in DOMAIN generations : generations[g].dataset_id \in DOMAIN datasets)
  /\ [][Len(generations') > Len(generations) =>
          /\ Last(generations').user_id = user
          /\ Last(generations').dataset_id \in DOMAIN datasets]_vars

C5_Witness ==
  \E g \in DOMAIN generations :
    /\ generations[g].user_id = user
    /\ generations[g].dataset_id \in UserDatasetIds

\* the number of lines of a text that hold a character other than white
\* space, counted on character positions
LineOf(text, i) == Cardinality({j \in 1..(i-1) : text[j] = "\n"})

NonBlankLines(text) ==
  {LineOf(text, i) : i \in {j \in DOMAIN text : text[j] \notin WhiteSpace}}

LineCount(text) == 1 + Cardinality({j \in DOMAIN text : text[j] = "\n"})

\* C6: the row_count of the Dataset inserted from an uploaded file is the
\* number of its non-blank lines minus one, wherever its blank lines are.
C6_RowCount ==
  /\ \A i \in DOMAIN uploadReqs :
       uploadReqs[i].kind = "file" =>
         uploadReqs[i].row.row_count
            = Cardinality(NonBlankLines(uploadReqs[i].file.text)) - 1
  /\ upSuccess => Last(datasets).row_count = Cardinality(NonBlankLines(file.text)) - 1

\* a stored upload with data lines and with blank lines among its lines
C6_Witness ==
  /\ upSuccess
  /\ Last(datasets).row_count >= 2
  /\ LineCount(file.text) > Cardinality(NonBlankLines(file.text)) + 1

\* the fields of the first non-blank line, on character positions
UpperOf(c) == CASE c = "i" -> "I" [] c = "d" -> "D" [] c = "n" -> "N" [] OTHER -> c

Keywords == { <<"i","d">>, <<"n","a","m","e">>, <<"p","h","o","n","e">> }

MinOf(S) == CHOOSE a \in S : \A b \in S : a <= b

MaxOf(S) == CHOOSE a \in S : \A b \in S : a >= b

SchemaAsClaimed(schema, text) ==
  LET ink == {i \in DOMAIN text : text[i] \notin WhiteSpace}
      \* the first non-blank line runs from lineStart to lineEnd
      first == MinOf(ink)
      lineStart == IF \E j \in 1..first : text[j] = "\n"
                   THEN 1 + MaxOf({j \in 1..first : text[j] = "\n"}) ELSE 1
      lineEnd == IF \E j \in first..Len(text) : text[j] = "\n"
                 THEN MinOf({j \in first..Len(text) : text[j] = "\n"}) - 1
                 ELSE Len(text)
      commas == {j \in lineStart..lineEnd : text[j] = ","}
      fieldOf == [i \in lineStart..lineEnd |->
                    1 + Cardinality({j \in commas : j < i})]
      positions(f) == {i \in lineStart..lineEnd : text[i] # "," /\ fieldOf[i] = f}
      name(f) == LET fInk == positions(f) \cap ink
                 IN IF fInk = {} THEN <<>> ELSE SubSeq(text, MinOf(fInk), MaxOf(fInk))
      sensitive(f) ==
        \E w \in Keywords : \E i \in positions(f) :
          \A j \in 1..Len(w) :
            /\ (i + j - 1) \in positions(f)
            /\ text[i + j - 1] \in {w[j], UpperOf(w[j])}
  IN /\ Len(schema) = 1 + Cardinality(commas)
     /\ \A f \in 1..Len(schema) :
          /\ schema[f].name = name(f)
          /\ schema[f].type = "string"
          /\ schema[f].sensitive = sensitive(f)

Flags(schema) == [f \in DOMAIN schema |-> schema[f].sensitive]

\* C7: the schema of an upload has one entry per comma-separated field of
\* the first non-blank line, in order: the trimmed header, type "string",
\* and sensitive exactly when the header contains id, name or phone in any
\* letter case; a,b,id gives F,F,T and customer_id,amount,phone gives T,F,T.
C7_Schema ==
  /\ \A i \in DOMAIN uploadReqs :
       uploadReqs[i].kind = "file" =>
         /\ SchemaAsClaimed(uploadReqs[i].row.schema_json, uploadReqs[i].file.text)
         /\ uploadReqs[i].file.text = HeaderAbId =>
              Flags(uploadReqs[i].row.schema_json) = <<FALSE, FALSE, TRUE>>
  /\ upSuccess => SchemaAsClaimed(Last(datasets).schema_json, file.text)

C7_Witness ==
  /\ upSuccess
  /\ Len(file.text) > Len(HeaderCustomer)
  /\ SubSeq(file.text, 1, Len(HeaderCustomer)) = HeaderCustomer
  /\ Flags(Last(datasets).schema_json) = <<TRUE, FALSE, TRUE>>

\* C8: a file that is not text/csv never becomes the selected file and no
\* insert is derived from it; the step that shows 'Please upload a CSV file'
\* keeps the selected file and issues no request.
C8_RejectsNonCsv ==
  /\ [](file = NoFile \/ file.type = "text/csv")
  /\ [](\A i \in DOMAIN uploadReqs :
          uploadReqs[i].kind = "file" => uploadReqs[i].file.type = "text/csv")
  /\ [][(upError' = CsvError /\ upError # CsvError) =>
          /\ file' = file
          /\ UNCHANGED <<storeVars, createReqs, uploadReqs, uploadTimers,
                         loadDatasetReqs, genReqs, genTimers, plLoadPending,
                         tplLoadPending>>]_vars

\* a rejection that followed the selection of a CSV file
C8_Witness == upError = CsvError /\ file # NoFile

\* C9: the dataset insert of a template selection, when it returns a row,
\* adds exactly one Dataset: the template's schema_json unchanged, row_count
\* 1000, under the selected project.
C9_TemplateInsert ==
  /\ [](\A i \in DOMAIN uploadReqs :
          uploadReqs[i].kind = "template" => uploadReqs[i].file = NoFile)
  /\ [][\A i \in DOMAIN uploadReqs :
          (/\ uploadReqs[i].kind = "template"
           /\ uploadReqs' = Remove(uploadReqs, i)
           /\ datasets' # datasets) =>
             /\ Len(datasets') = Len(datasets) + 1
             /\ Extends(datasets', datasets)
             /\ Last(datasets').schema_json
                  = Templates[uploadReqs[i].template].schema_json
             /\ Last(datasets').row_count = TemplateRowCount
             /\ Last(datasets').project_id = uploadReqs[i].row.project_id]_vars

\* a template dataset stored while no file was selected
C9_Witness ==
  /\ upSuccess /\ file = NoFile
  /\ \E d \in UserDatasetIds :
       /\ datasets[d].row_count = TemplateRowCount
       /\ datasets[d].schema_json = Templates[1].schema_json

\* C10: a dataset insert that succeeded schedules onUploadComplete, which is
\* only ever scheduled for a stored Dataset, and leads to a state with the
\* active view 'generate' and selectedDataset the new Dataset's id.
C10_UploadLeadsToGenerate ==
  /\ [](UploadTimerIds \subseteq DOMAIN datasets)
  /\ [](selectedDataset # NoId => selectedDataset \in UserDatasetIds)
  /\ [][Len(datasets') > Len(datasets) => Len(datasets') \in UploadTimerIds']_vars
  /\ \A d \in 1..MaxRows :
       (d \in UploadTimerIds) ~> (currentView = "generate" /\ selectedDataset = d)

C10_Witness ==
  /\ currentView = "generate"
  /\ selectedDataset \in UserDatasetIds
  /\ selectedProject # NoId

\* C11: while the active view is 'generate' and no dataset is selected, the
\* generator does not render its form, no generation submission is running
\* or pending, and no step adds a Generation, metrics or report row.
C11_NoDatasetNoGeneration ==
  /\ []((currentView = "generate" /\ selectedDataset = NoId) =>
          /\ ~GenerateFormRendered
          /\ ~generating /\ ~genSuccess
          /\ genReqs = <<>> /\ genTimers = <<>>)
  /\ [][(currentView = "generate" /\ selectedDataset = NoId) =>
          UNCHANGED <<generations, privacy_metrics, utility_metrics,
                      compliance_reports, genReqs>>]_vars

\* the empty state shown while a finished upload has not yet handed over
\* its dataset
C11_Witness ==
  /\ currentView = "generate" /\ selectedDataset = NoId
  /\ uploadTimers # <<>>


\* x, in units of 1 / (1000 * RandSteps), lies in [lo, hi] given in thousandths
InInterval(x, lo, hi) == lo * RandSteps <= x /\ x <= hi * RandSteps

PrivacyInRange(row) ==
  /\ InInterval(row.privacy_risk_score, 50, 150)
  /\ InInterval(row.leakage_probability, 1, 6)

UtilityInRange(row) ==
  /\ InInterval(row.fidelity_score, 850, 950)
  /\ InInterval(row.similarity_score, 880, 960)
  /\ InInterval(row.correlation_preservation, 900, 980)
  /\ InInterval(row.distribution_similarity, 870, 960)
  /\ InInterval(row.ml_efficacy_score, 820, 940)

\* C12: whatever the seven draws of a submission are, the scores it sends
\* and the scores stored lie in their intervals: privacy_risk_score in
\* [0.05, 0.15], leakage_probability in [0.001, 0.006], fidelity_score in
\* [0.85, 0.95], similarity_score in [0.88, 0.96], correlation_preservation
\* in [0.90, 0.98], distribution_similarity in [0.87, 0.96] and
\* ml_efficacy_score in [0.82, 0.94].
C12_ScoresInRange ==
  /\ \A i \in DOMAIN genReqs :
       genReqs[i].stage = "metrics" =>
         /\ PrivacyInRange(PrivacyRow(genReqs[i].gen, genReqs[i].row.parameters,
                                      genReqs[i].draws))
         /\ UtilityInRange(UtilityRow(genReqs[i].gen, genReqs[i].draws))
  /\ \A k \in DOMAIN privacy_metrics : PrivacyInRange(privacy_metrics[k])
  /\ \A k \in DOMAIN utility_metrics : UtilityInRange(utility_metrics[k])

\* stored rows of one submission whose draws differed from field to field:
\* the highest draw for one score, the lowest for another
C12_Witness ==
  \E g \in DOMAIN generations :
    /\ generations[g].user_id = user
    /\ \E k \in DOMAIN privacy_metrics :
         /\ privacy_metrics[k].generation_id = g
         /\ privacy_metrics[k].privacy_risk_score = Score(50, 100, RandSteps - 1)
         /\ privacy_metrics[k].leakage_probability = Score(1, 5, 0)
    /\ \E k \in DOMAIN utility_metrics :
         /\ utility_metrics[k].generation_id = g
         /\ utility_metrics[k].ml_efficacy_score = Score(820, 120, RandSteps - 1)
         /\ utility_metrics[k].fidelity_score = Score(850, 100, 0)

\* the text behind the first "=" of a report line
AfterEquals(s) == SubSeq(s, IndexOf(s, "=") + 1, Len(s))

ExampleGuarantees ==
  <<"ε","-","d","i","f","f","e","r","e","n","t","i","a","l"," ","p","r",
      "i","v","a","c","y"," ","w","i","t","h"," ","ε","=","1">>

ExampleAnonymization ==
  <<"k","-","a","n","o","n","y","m","i","t","y"," ","w","i","t","h"," ",
    "k","=","5">>

\* C13: the compliance report of a generation names the epsilon and the k
\* that were in the form parameters when it was submitted: its
\* privacy_guarantees reads back as that epsilon behind "ε=", its
\* anonymization as that k behind "k="; epsilon 1.0 and k 5 give
\* "ε-differential privacy with ε=1" and "k-anonymity with k=5".
C13_ReportTexts ==
  /\ [](\A k \in DOMAIN compliance_reports :
          LET r == compliance_reports[k]
              p == generations[r.generation_id].parameters
          IN /\ Includes(r.privacy_guarantees, <<"ε","=">>)
             /\ Includes(r.anonymization, <<"k","=">>)
             /\ ParseFloat(AfterEquals(r.privacy_guarantees)) = p.epsilon
             /\ ParseInt(AfterEquals(r.anonymization)) = p.k_anonymity
             /\ (p.epsilon = 10 /\ p.k_anonymity = 5) =>
                  /\ r.privacy_guarantees = ExampleGuarantees
                  /\ r.anonymization = ExampleAnonymization)
  /\ [][Len(genReqs') > Len(genReqs) =>
          Last(genReqs').row.parameters = params]_vars

\* a stored report of a submission with epsilon 0.5 and k 20
C13_Witness ==
  \E k \in DOMAIN compliance_reports :
    LET r == compliance_reports[k] IN
      /\ generations[r.generation_id].user_id = user
      /\ generations[r.generation_id].parameters.epsilon = 5
      /\ generations[r.generation_id].parameters.k_anonymity = 20
      /\ AfterEquals(r.privacy_guarantees) = <<"0",".","5">>
      /\ AfterEquals(r.anonymization) = <<"2","0">>

\* C14: the valid_until of every stored compliance report is exactly 365
\* days after the started_at and the completed_at of its Generation and
\* after its own generated_at.
C14_ValidUntil ==
  \A k \in DOMAIN compliance_reports :
    LET r == compliance_reports[k]
        g == generations[r.generation_id]
    IN /\ r.valid_until = AddValidity(g.started_at)
       /\ r.valid_until = AddValidity(g.completed_at)
       /\ r.valid_until = AddValidity(r.generated_at)

OwnGenerations == {g \in DOMAIN generations : generations[g].user_id = user}

\* C16: the list of the metrics view holds generations of the signed-in
\* user only, newest first, the selected generation is never another
\* user's, and a load that returns rows lists all the user's generations
\* and selects the newest of them.
C16_OwnGenerationsNewestFirst ==
  /\ [](\A k \in DOMAIN pmGenerations : pmGenerations[k] \in OwnGenerations)
  /\ [](\A k \in 1..(Len(pmGenerations) - 1) : pmGenerations[k] > pmGenerations[k + 1])
  /\ [](selectedGen # NoId => selectedGen \in OwnGenerations)
  /\ [][(pmLoadPending /\ ~pmLoadPending' /\ pmGenerations' # <<>>) =>
          /\ {pmGenerations'[k] : k \in DOMAIN pmGenerations'} = OwnGenerations
          /\ selectedGen' = MaxOf(OwnGenerations)]_vars

\* the loaded list of two generations, the newer one selected, while the
\* newest generation of the store is another user's
C16_Witness ==
  /\ currentView = "metrics" /\ ~pmLoading
  /\ Len(pmGenerations) = 2
  /\ selectedGen = pmGenerations[1]
  /\ generations[Len(generations)].user_id = OtherUser

\* the rows a count of the table is about: the user's projects, every
\* dataset, the user's generations
RowsCounted(tbl) ==
  CASE tbl = "projects" ->
         Cardinality({p \in DOMAIN projects : projects[p].user_id = user})
    [] tbl = "datasets" -> Cardinality(DOMAIN datasets)
    [] tbl = "synthetic_generations" -> Cardinality(OwnGenerations)

\* the statistics shown for the three counts
StatsShown(counts) ==
  [totalProjects |-> OrZero(counts["projects"]),
   totalDatasets |-> OrZero(counts["datasets"]),
   totalGenerations |-> OrZero(counts["synthetic_generations"]),
   recentActivity |-> OrZero(counts["synthetic_generations"])]

\* a step in which a query of a stats load returns delivers one of
\* Results(tbl), and the step of the last query shows the three results
StatsLoadStep(Results(_)) ==
  \A i \in DOMAIN statsReqs : \A tbl \in statsReqs[i].pending :
    (/\ Len(statsReqs') = Len(statsReqs)
     /\ statsReqs'[i].pending = statsReqs[i].pending \ {tbl}) =>
      /\ statsReqs'[i].counts[tbl] \in Results(tbl)
      /\ \A t \in StatsTables \ {tbl} :
           statsReqs'[i].counts[t] = statsReqs[i].counts[t]
      /\ stats' = IF statsReqs'[i].pending = {}
                  THEN StatsShown(statsReqs'[i].counts) ELSE stats

RowCountOnly(tbl) == {RowsCounted(tbl)}
RowCountOrNone(tbl) == {RowsCounted(tbl), NoCount}

\* C17 as stated: each query of a stats load delivers the number of rows
\* it is about at the time it is answered (the user's projects, all
\* datasets, the user's generations), and the completed load shows them.
C17_StatsAreCounts == [][StatsLoadStep(RowCountOnly)]_vars

\* C17 amended: each query of a stats load that succeeds delivers the
\* number of rows it is about at the time it is answered (the user's
\* projects, all datasets of any owner, the user's generations), and the
\* completed load shows that number for a query that succeeded and 0 for
\* one that failed.
C17_StatsAreCountsOrZero == [][StatsLoadStep(RowCountOrNone)]_vars

\* a completed load that shows the generation made while it was pending
\* and more datasets than the user's projects hold
C17_Witness ==
  /\ \A i \in DOMAIN statsReqs : statsReqs[i].pending = {}
  /\ stats.totalProjects = 1 /\ Len(projects) = 2
  /\ stats.totalDatasets = 2 /\ Cardinality(UserDatasetIds) = 1
  /\ stats.totalGenerations = 1 /\ stats.recentActivity = 1

\* C18: every Generation row has parameters with row_count >= 100,
\* 0.1 <= epsilon <= 10 (epsilon is counted in tenths) and
\* 2 <= k_anonymity <= 20, whatever was typed into the three fields.
C18_ParametersInBounds ==
  \A g \in DOMAIN generations :
    LET p == generations[g].parameters
    IN /\ p.row_count >= MinRowCount
       /\ MinEpsilon <= p.epsilon /\ p.epsilon <= MaxEpsilon
       /\ MinK <= p.k_anonymity /\ p.k_anonymity <= MaxK

\* the table of the store by its name
TableOf(tbl) ==
  CASE tbl = "privacy_metrics" -> privacy_metrics
    [] tbl = "utility_metrics" -> utility_metrics
    [] tbl = "compliance_reports" -> compliance_reports

\* none of the three inserts of a submission is issued while its
\* Generation insert is awaited, and they are awaited only for a
\* Generation that is stored as submitted
IssuedAfterGeneration ==
  \A i \in DOMAIN genReqs :
    IF genReqs[i].stage = "gen"
    THEN genReqs[i].pending = {} /\ genReqs[i].gen = NoId
    ELSE /\ genReqs[i].gen \in DOMAIN generations
         /\ generations[genReqs[i].gen] = genReqs[i].row

\* the three inserts are issued in the step in which the Generation insert
\* returns its row, and in no step in which it returns an error
IssuedWithGeneration ==
  \A i \in DOMAIN genReqs : genReqs[i].stage = "gen" =>
    \/ /\ Len(genReqs') = Len(genReqs)
       /\ genReqs'[i].stage = "gen" \/ /\ genReqs'[i].pending = MetricTables
                                        /\ Len(generations') = Len(generations) + 1
                                        /\ genReqs'[i].gen = Len(generations')
    \/ /\ Len(genReqs') = Len(genReqs) + 1
       /\ genReqs'[i] = genReqs[i]
    \/ /\ Len(genReqs') = Len(genReqs) - 1
       /\ generations' = generations
       /\ \A j \in DOMAIN genReqs' : \E k \in DOMAIN genReqs :
            /\ genReqs'[j].stage = genReqs[k].stage
            /\ genReqs'[j].pending = genReqs[k].pending

\* a row enters a metrics table only as the answer to an insert that a
\* submission is waiting for, under the id of its stored Generation
InsertAnswersRequest ==
  \A tbl \in MetricTables : TableOf(tbl)' # TableOf(tbl) =>
    \E i \in DOMAIN genReqs :
      /\ genReqs[i].stage = "metrics" /\ tbl \in genReqs[i].pending
      /\ genReqs[i].gen \in DOMAIN generations
      /\ generations' = generations
      /\ Len(TableOf(tbl)') = Len(TableOf(tbl)) + 1
      /\ TableOf(tbl)'[Len(TableOf(tbl)')].generation_id = genReqs[i].gen

\* the success state and the timer are entered in the step in which the
\* last of the three inserts of a submission returns
SuccessAfterAllThree ==
  ((genSuccess' /\ ~genSuccess) \/ Len(genTimers') > Len(genTimers)) =>
    \E i \in DOMAIN genReqs :
      /\ genReqs[i].stage = "metrics"
      /\ Cardinality(genReqs[i].pending) = 1
      /\ genReqs' = Remove(genReqs, i)
      /\ genTimers' = Append(genTimers, genReqs[i].gen)

\* the inserts a submission waits for return one at a time
OneAtATime ==
  \A i \in DOMAIN genReqs :
    (/\ Len(genReqs') = Len(genReqs)
     /\ genReqs[i].stage = "metrics") =>
      /\ genReqs'[i].stage = "metrics"
      /\ genReqs'[i].pending \subseteq genReqs[i].pending
      /\ Cardinality(genReqs[i].pending \ genReqs'[i].pending) <= 1
      /\ genReqs'[i].pending # {}

\* C19: within a submission the Generation insert precedes the three
\* metrics and report inserts, none of them is issued unless the Generation
\* insert returned a row, and the success state and the completion timer
\* are entered only when all three have returned.
C19_GenerationThenThreeThenSuccess ==
  /\ []IssuedAfterGeneration
  /\ [][/\ IssuedWithGeneration
        /\ InsertAnswersRequest
        /\ OneAtATime
        /\ SuccessAfterAllThree]_vars

\* the success state with the timer armed for a Generation whose three
\* rows are stored
C19_Witness ==
  /\ genSuccess /\ ~generating
  /\ Len(genTimers) = 1
  /\ \A tbl \in MetricTables :
       \E r \in DOMAIN TableOf(tbl) : TableOf(tbl)[r].generation_id = genTimers[1]

\* the rows of a metrics table that belong to a Generation
RowsOf(tbl, g) == {r \in DOMAIN TableOf(tbl) : TableOf(tbl)[r].generation_id = g}

\* C20: every privacy_metrics, utility_metrics and compliance_reports row
\* carries the id of a stored Generation, and no Generation has more than
\* one row in any of the three tables.
C20_OneRowPerGeneration ==
  \A tbl \in MetricTables :
    /\ \A r \in DOMAIN TableOf(tbl) :
         TableOf(tbl)[r].generation_id \in DOMAIN generations
    /\ \A g \in DOMAIN generations : Cardinality(RowsOf(tbl, g)) <= 1

\* a Generation of the session with its row in each table, stored beside
\* another Generation and its rows
C20_Witness ==
  \E g \in OwnGenerations :
    /\ \A tbl \in MetricTables : Cardinality(RowsOf(tbl, g)) = 1
    /\ \E h \in DOMAIN generations \ {g} :
         \A tbl \in MetricTables : Cardinality(RowsOf(tbl, h)) = 1

\* the Generation insert of submission i returns an error in this step
GenerationFails(i) ==
  /\ genReqs[i].stage = "gen"
  /\ genReqs' = Remove(genReqs, i)

\* C21: when the Generation insert fails, none of the three inserts is
\* issued and no row is stored, onGenerationComplete is not scheduled, the
\* active view and the selected dataset are left alone, and in the form
\* that made the submission a non-empty message is shown, the success
\* state is not entered and the generating flag is false again.
C21_GenerationFailure ==
  [][\A i \in DOMAIN genReqs : GenerationFails(i) =>
       /\ genReqs[i].pending = {}
       /\ storeVars' = storeVars
       /\ genTimers' = genTimers
       /\ currentView' = currentView
       /\ selectedDataset' = selectedDataset
       /\ IF genReqs[i].alive
          THEN /\ currentView = "generate"
               /\ genError' # ""
               /\ ~genSuccess'
               /\ ~generating'
          ELSE genVars' = genVars]_vars

\* the form after a failed Generation insert whose error had no message
C21_Witness ==
  /\ currentView = "generate"
  /\ genError = GenerationFailed
  /\ ~generating /\ ~genSuccess
  /\ genReqs = <<>> /\ genTimers = <<>>
  /\ OwnGenerations = {}

\* the Dataset insert of submission i returns an error in this step
DatasetInsertFails(i) ==
  /\ uploadReqs' = Remove(uploadReqs, i)
  /\ datasets' = datasets

\* C22: when a Dataset insert of the file or the template path fails, no
\* row is stored, onUploadComplete is not scheduled, selectedDataset and
\* the active view are left alone, and in the form that made the
\* submission a non-empty message is shown, the success state is not
\* entered, and the uploading flag is false again with the form rendered.
C22_DatasetInsertFailure ==
  [][\A i \in DOMAIN uploadReqs : DatasetInsertFails(i) =>
       /\ storeVars' = storeVars
       /\ uploadTimers' = uploadTimers
       /\ currentView' = currentView
       /\ selectedDataset' = selectedDataset
       /\ IF uploadReqs[i].alive
          THEN /\ currentView = "upload"
               /\ upError' # ""
               /\ ~upSuccess'
               /\ ~uploading'
               /\ UploadFormRendered'
          ELSE upVars' = upVars]_vars

\* the upload form after a failed template insert whose error had no
\* message
C22_Witness ==
  /\ currentView = "upload"
  /\ upError = TemplateFailed
  /\ ~uploading /\ ~upSuccess
  /\ uploadReqs = <<>> /\ uploadTimers = <<>>
  /\ selectedDataset = NoId

\* the project insert of submission i returns no row in this step
ProjectInsertFails(i) ==
  /\ createReqs' = Remove(createReqs, i)
  /\ projects' = projects

\* C23: when a project insert returns no row, the store, the project list
\* in memory, selectedProject, selectedDataset and the active view are
\* unchanged, the create form is as open and as filled as it was, no
\* message of any view is set, no other insert is issued, and the loading
\* flag of the form that submitted is false again.
C23_ProjectInsertFailure ==
  [][\A i \in DOMAIN createReqs : ProjectInsertFails(i) =>
       /\ storeVars' = storeVars
       /\ plProjects' = plProjects
       /\ selectedProject' = selectedProject
       /\ selectedDataset' = selectedDataset
       /\ currentView' = currentView
       /\ showCreateForm' = showCreateForm
       /\ formData' = formData
       /\ upError' = upError /\ genError' = genError
       /\ Len(createReqs') = Len(createReqs) - 1
       /\ IF createReqs[i].alive
          THEN currentView = "projects" /\ ~plLoading'
          ELSE plLoading' = plLoading]_vars

\* a failure leaves no trace of itself: the insert of the open form is
\* awaited, and the form was edited after it was submitted
C23_Witness ==
  /\ currentView = "projects" /\ showCreateForm /\ plLoading
  /\ Len(createReqs) = 1 /\ createReqs[1].alive
  /\ formData.industry # createReqs[1].row.industry

\* C24: whenever a project and a dataset are both selected, the selected
\* dataset is one of the selected project.
C24_SelectedDatasetOfSelectedProject ==
  (selectedProject # NoId /\ selectedDataset # NoId) =>
    datasets[selectedDataset].project_id = selectedProject

\* a completion timer of an upload, of a generation, fires in this step
UploadTimerFires == uploadTimers # <<>> /\ uploadTimers' = Tail(uploadTimers)
GenTimerFires == genTimers # <<>> /\ genTimers' = Tail(genTimers)

\* C25: a completion timer that fires when the view that armed it is no
\* longer the active view changes neither the active view nor
\* selectedDataset.
C25_TimerOnlyInItsView ==
  [][/\ (UploadTimerFires /\ currentView # "upload") =>
          (currentView' = currentView /\ selectedDataset' = selectedDataset)
     /\ (GenTimerFires /\ currentView # "generate") =>
          (currentView' = currentView /\ selectedDataset' = selectedDataset)]_vars

\* C26: at most one generation submission is between its start and its
\* finally block at any time.
C26_OneSubmissionInFlight == Len(genReqs) <= 1

\* the loadStats call i resolves in this step
CallCompletes(i) ==
  /\ statsReqs[i].pending # {}
  /\ Len(statsReqs') = Len(statsReqs)
  /\ statsReqs'[i].pending = {}

\* every loadStats call made so far has resolved
AllCallsCompleted == \A i \in DOMAIN statsReqs : statsReqs[i].pending = {}

\* C28: a loadStats call never resolves after a call that was made later
\* has resolved, and once all calls have resolved the counts displayed are
\* those of the call made last.
C28_LastStartedWins ==
  /\ [][\A i \in DOMAIN statsReqs : CallCompletes(i) =>
          \A j \in DOMAIN statsReqs : j > i => statsReqs[j].pending # {}]_vars
  /\ []((AllCallsCompleted /\ statsReqs # <<>>) =>
          stats = StatsShown(statsReqs[Len(statsReqs)].counts))

\* nothing is awaited: no insert, no completion timer, no loadStats call
Settled ==
  /\ createReqs = <<>> /\ uploadReqs = <<>> /\ genReqs = <<>>
  /\ uploadTimers = <<>> /\ genTimers = <<>>
  /\ AllCallsCompleted

\* the session has inserted a project, a dataset or a generation
InsertedThroughUI ==
  \/ \E p \in DOMAIN projects : projects[p].user_id = user
  \/ UserDatasetIds # {}
  \/ OwnGenerations # {}

\* C27: after an insert made through the UI, once the timers and the stats
\* loads have settled, the displayed totals equal the counts of the store:
\* the user's projects, all datasets, the user's generations.
C27_SettledStatsAreCounts ==
  (InsertedThroughUI /\ Settled) =>
    /\ stats.totalProjects = RowsCounted("projects")
    /\ stats.totalDatasets = RowsCounted("datasets")
    /\ stats.totalGenerations = RowsCounted("synthetic_generations")

\* C29: for every Generation with a privacy_metrics row and a compliance
\* report, the epsilon and the k of the Generation's parameters, of the
\* privacy_metrics row and of the two report texts are the same values.
C29_SameEpsilonAndK ==
  \A g \in DOMAIN generations :
    \A m \in RowsOf("privacy_metrics", g), c \in RowsOf("compliance_reports", g) :
      LET p == generations[g].parameters
          pm == privacy_metrics[m]
          cr == compliance_reports[c]
      IN /\ pm.epsilon = p.epsilon
         /\ pm.k_anonymity = p.k_anonymity
         /\ ParseFloat(AfterEquals(cr.privacy_guarantees)) = pm.epsilon
         /\ ParseInt(AfterEquals(cr.anonymization)) = pm.k_anonymity

\* a completed submission whose form was edited while it was in flight:
\* the fields hold another epsilon and another k than the stored rows
C29_Witness ==
  /\ genSuccess
  /\ \E g \in OwnGenerations :
       /\ RowsOf("privacy_metrics", g) # {}
       /\ RowsOf("compliance_reports", g) # {}
       /\ generations[g].parameters.epsilon = 5
       /\ params.epsilon # 5
       /\ params.k_anonymity # generations[g].parameters.k_anonymity

\* the picked file has no non-blank line, has only its header line
NoLine == NonBlankLines(file.text) = {}
HeaderOnly == Cardinality(NonBlankLines(file.text)) = 1

\* C30: every Dataset row, stored or being inserted, has row_count >= 0;
\* submitting a file without a non-blank line shows a message and inserts
\* nothing, and a file of one non-blank line gives a Dataset with
\* row_count 0.
C30_RowCountNotNegative ==
  /\ [](\A d \in DOMAIN datasets : datasets[d].row_count >= 0)
  /\ [](\A i \in DOMAIN uploadReqs : uploadReqs[i].row.row_count >= 0)
  /\ [](NoLine => (uploadReqs = <<>> /\ ~upSuccess /\ ~uploading))
  /\ [][NoLine => (/\ upError' # ""
                   /\ datasets' = datasets
                   /\ uploadReqs' = <<>> /\ uploadTimers' = <<>>)]_vars
  /\ [](HeaderOnly =>
         /\ \A i \in DOMAIN uploadReqs : uploadReqs[i].row.row_count = 0
         /\ upSuccess => Last(datasets).row_count = 0)

\* the message after a file of blank lines was submitted, nothing inserted
C30_Witness ==
  /\ NoLine /\ Len(file.text) >= 2
  /\ upError = TypeErrorMsg
  /\ uploadReqs = <<>> /\ Len(datasets) = 1

\* a stored Dataset of a header-only file
HeaderOnlyStored ==
  /\ HeaderOnly /\ upSuccess /\ Last(datasets).row_count = 0

====
